---- MODULE Spec2Model ----
(* Group clusters client of go-gitlab (group_clusters.go): the five        *)
(* operations ListClusters, GetCluster, AddCluster, EditCluster and        *)
(* DeleteCluster, each composing parseID -> pathEscape -> NewRequest -> Do.*)
(* Strings that the code inspects character by character (identifiers and  *)
(* URL paths) are sequences of one-character strings; all other strings    *)
(* are atomic.  Every Go value is a record tagged by its field t.          *)
EXTENDS Integers, Sequences, FiniteSets, TLC

\* ---------------------------------------------------------------- bounds
NumProcs == 2
MaxPathLen == 2

Procs == 1..NumProcs

\* ------------------------------------------------------------ Go values
Nil == [t |-> "nil"]

Err(kind) == [t |-> "err", kind |-> kind]

\* ---------------------------------------------------------------- strings
Digits == <<"0", "1", "2", "3", "4", "5", "6", "7", "8", "9">>

RECURSIVE ItoaNat(_)
ItoaNat(n) == IF n < 10 THEN <<Digits[n + 1]>>
              ELSE ItoaNat(n \div 10) \o <<Digits[(n % 10) + 1]>>

Itoa(n) == IF n < 0 THEN <<"-">> \o ItoaNat(0 - n) ELSE ItoaNat(n)

PathAlphabet == {"a", "/", "%"}

RECURSIVE StringsUpTo(_)
StringsUpTo(n) == IF n = 0 THEN {<< >>}
                  ELSE LET S == StringsUpTo(n - 1)
                       IN S \cup {Append(s, c) : s \in {x \in S : Len(x) = n - 1}, c \in PathAlphabet}

\* gid interface{}: an int, a string, or a value of any other type
IntID(n) == [t |-> "int", n |-> n]
StringID(s) == [t |-> "string", s |-> s]
OtherID == [t |-> "float64"]

\* parseID: (group, err)
parseID(gid) ==
    CASE gid.t = "int" -> [group |-> Itoa(gid.n), err |-> Nil]
      [] gid.t = "string" /\ gid.s # << >> -> [group |-> gid.s, err |-> Nil]
      [] OTHER -> [group |-> << >>, err |-> Err("InvalidIdentifier")]

EscapeChar(c) == CASE c = "/" -> <<"%", "2", "F">>
                   [] c = "%" -> <<"%", "2", "5">>
                   [] OTHER -> <<c>>

RECURSIVE pathEscape(_)
pathEscape(s) == IF s = << >> THEN << >>
                 ELSE EscapeChar(Head(s)) \o pathEscape(Tail(s))

GroupsPrefix == <<"g", "r", "o", "u", "p", "s", "/">>
ClustersSuffix == <<"/", "c", "l", "u", "s", "t", "e", "r", "s">>
UserSuffix == <<"/", "u", "s", "e", "r">>

\* fmt.Sprintf("groups/%s/clusters", pathEscape(group))
ListURLRaw(group) == GroupsPrefix \o group \o ClustersSuffix
ListURL(group) == GroupsPrefix \o pathEscape(group) \o ClustersSuffix

\* fmt.Sprintf("groups/%s/clusters/%d", pathEscape(group), cluster)
ClusterURL(group, cluster) ==
    GroupsPrefix \o pathEscape(group) \o ClustersSuffix \o <<"/">> \o Itoa(cluster)

\* fmt.Sprintf("groups/%s/clusters/user", pathEscape(group))
AddURL(group) == GroupsPrefix \o pathEscape(group) \o ClustersSuffix \o UserSuffix

\* ------------------------------------------------------------------ JSON
JNull == [t |-> "null"]
JNum(n) == [t |-> "num", n |-> n]
JStr(s) == [t |-> "str", s |-> s]
JBool(b) == [t |-> "bool", b |-> b]
JObj(f) == [t |-> "obj", f |-> f]
JArr(e) == [t |-> "arr", e |-> e]
JEmpty == [t |-> "empty"]
JMalformed == [t |-> "malformed"]

Has(obj, key) == key \in DOMAIN obj.f

\* -------------------------------------------------- result types (decoding)
\* GroupPlatformKubernetes and GroupCluster, zero values.  CreatedAt, User and
\* Group have types declared outside these files and are left out.
ZeroPlatformKubernetes ==
    [t |-> "GroupPlatformKubernetes", APIURL |-> "", Token |-> "", CaCert |-> "",
     AuthorizationType |-> ""]

ZeroCluster ==
    [t |-> "GroupCluster", ID |-> 0, Name |-> "", Domain |-> "", ProviderType |-> "",
     PlatformType |-> "", EnvironmentScope |-> "", ClusterType |-> "",
     PlatformKubernetes |-> Nil]

Slice(e) == [t |-> "slice", e |-> e]

\* <<Go field, json key>> of the string fields
ClusterStringTags ==
    <<<<"Name", "name">>, <<"Domain", "domain">>, <<"ProviderType", "provider_type">>,
      <<"PlatformType", "platform_type">>, <<"EnvironmentScope", "environment_scope">>,
      <<"ClusterType", "cluster_type">>>>

PlatformKubernetesTags ==
    <<<<"APIURL", "api_url">>, <<"Token", "token">>, <<"CaCert", "ca_cert">>,
      <<"AuthorizationType", "authorization_type">>>>

\* encoding/json: a key that is absent or null leaves a string or int field as it
\* is; a value of another JSON type leaves it as it is and records a type error.
StrOf(cur, obj, key) ==
    IF Has(obj, key) /\ obj.f[key].t = "str" THEN obj.f[key].s ELSE cur

IntOf(cur, obj, key) ==
    IF Has(obj, key) /\ obj.f[key].t = "num" THEN obj.f[key].n ELSE cur

Mismatch(obj, key, ty) == Has(obj, key) /\ obj.f[key].t \notin {"null", ty}

TagOf(tags, field) == CHOOSE i \in 1..Len(tags) : tags[i][1] = field

DecodeStrings(cur, obj, tags) ==
    [fld \in DOMAIN cur |->
        IF \E i \in 1..Len(tags) : tags[i][1] = fld
        THEN StrOf(cur[fld], obj, tags[TagOf(tags, fld)][2])
        ELSE cur[fld]]

StringsErr(obj, tags) == \E i \in 1..Len(tags) : Mismatch(obj, tags[i][2], "str")

\* the field PlatformKubernetes *GroupPlatformKubernetes
DecodePlatformKubernetes(cur, obj) ==
    IF ~Has(obj, "platform_kubernetes") THEN cur
    ELSE LET v == obj.f["platform_kubernetes"]
         IN CASE v.t = "null" -> Nil
              [] v.t = "obj" ->
                   DecodeStrings(IF cur = Nil THEN ZeroPlatformKubernetes ELSE cur,
                                 v, PlatformKubernetesTags)
              [] OTHER -> cur

PlatformKubernetesErr(obj) ==
    /\ Has(obj, "platform_kubernetes")
    /\ LET v == obj.f["platform_kubernetes"]
       IN \/ v.t \notin {"null", "obj"}
          \/ v.t = "obj" /\ StringsErr(v, PlatformKubernetesTags)

DecodeCluster(cur, obj) ==
    LET s == DecodeStrings(cur, obj, ClusterStringTags)
    IN [s EXCEPT !.ID = IntOf(cur.ID, obj, "id"),
                 !.PlatformKubernetes = DecodePlatformKubernetes(cur.PlatformKubernetes, obj)]

ClusterErr(obj) ==
    \/ Mismatch(obj, "id", "num")
    \/ StringsErr(obj, ClusterStringTags)
    \/ PlatformKubernetesErr(obj)

DecodeError == Err("DecodeError")

\* one element of a []*GroupCluster
DecodeElement(e) ==
    CASE e.t = "null" -> Nil
      [] e.t = "obj" -> DecodeCluster(ZeroCluster, e)
      [] OTHER -> ZeroCluster

ElementErr(e) == e.t \notin {"null", "obj"} \/ (e.t = "obj" /\ ClusterErr(e))

\* json.NewDecoder(body).Decode(v) for the three shapes of v the operations pass:
\* "ptr" (pc, a *GroupCluster), "ptrptr" (&pc) and "ptrslice" (&pcs).  cur is the
\* value of the caller's variable; the result is its new value and the error.
Unmarshal(kind, cur, body) ==
    CASE body.t \in {"empty", "malformed"} -> [v |-> cur, err |-> DecodeError]
      [] body.t = "null" ->
           [v |-> IF kind = "ptr" THEN cur ELSE Nil, err |-> Nil]
      [] body.t = "obj" /\ kind \in {"ptr", "ptrptr"} ->
           [v |-> DecodeCluster(IF cur = Nil THEN ZeroCluster ELSE cur, body),
            err |-> IF ClusterErr(body) THEN DecodeError ELSE Nil]
      [] body.t = "arr" /\ kind = "ptrslice" ->
           [v |-> Slice([i \in 1..Len(body.e) |-> DecodeElement(body.e[i])]),
            err |-> IF \E i \in 1..Len(body.e) : ElementErr(body.e[i])
                    THEN DecodeError ELSE Nil]
      [] OTHER -> [v |-> cur, err |-> DecodeError]

\* ------------------------------------------------ option types (encoding)
StrP(s) == [t |-> "string", s |-> s]
BoolP(b) == [t |-> "bool", b |-> b]

AddGroupClusterTags ==
    <<<<"Name", "name">>, <<"Domain", "domain">>, <<"Enabled", "enabled">>,
      <<"Managed", "managed">>, <<"EnvironmentScope", "environment_scope">>,
      <<"PlatformKubernetes", "platform_kubernetes_attributes">>>>

AddGroupPlatformKubernetesTags ==
    <<<<"APIURL", "api_url">>, <<"Token", "token">>, <<"CaCert", "ca_cert">>,
      <<"AuthorizationType", "authorization_type">>>>

EditGroupClusterTags ==
    <<<<"Name", "name">>, <<"Domain", "domain">>,
      <<"EnvironmentScope", "environment_scope">>,
      <<"PlatformKubernetes", "platform_kubernetes_attributes">>>>

EditGroupPlatformKubernetesTags ==
    <<<<"APIURL", "api_url">>, <<"Token", "token">>, <<"CaCert", "ca_cert">>>>

TagsOfType(ty) ==
    CASE ty = "AddGroupClusterOptions" -> AddGroupClusterTags
      [] ty = "AddGroupPlatformKubernetesOptions" -> AddGroupPlatformKubernetesTags
      [] ty = "EditGroupClusterOptions" -> EditGroupClusterTags
      [] ty = "EditGroupPlatformKubernetesOptions" -> EditGroupPlatformKubernetesTags

\* json.Marshal of a pointer field tagged omitempty: a nil pointer is left out,
\* a non-nil pointer is written with the value it points to, empty or not.
RECURSIVE Marshal(_)
MarshalFields(s, tags) ==
    LET present == {i \in 1..Len(tags) : s[tags[i][1]] # Nil}
    IN JObj([k \in {tags[i][2] : i \in present} |->
                Marshal(s[tags[CHOOSE j \in present : tags[j][2] = k][1]])])

Marshal(v) ==
    CASE v.t = "nil" -> JNull
      [] v.t = "string" -> JStr(v.s)
      [] v.t = "bool" -> JBool(v.b)
      [] OTHER -> MarshalFields(v, TagsOfType(v.t))

\* omitempty applied to the value instead of the pointer: "" is left out too
MarshalFieldsValueOmit(s, tags) ==
    LET present == {i \in 1..Len(tags) :
                       s[tags[i][1]] # Nil /\ s[tags[i][1]] # StrP("")}
    IN JObj([k \in {tags[i][2] : i \in present} |->
                Marshal(s[tags[CHOOSE j \in present : tags[j][2] = k][1]])])

EditBodyValueOmit(opt) ==
    IF opt = Nil THEN JNull
    ELSE LET pk == opt.PlatformKubernetes
             top == MarshalFieldsValueOmit([opt EXCEPT !.PlatformKubernetes = Nil],
                                           EditGroupClusterTags)
         IN IF pk = Nil THEN top
            ELSE JObj([k \in DOMAIN top.f \cup {"platform_kubernetes_attributes"} |->
                         IF k = "platform_kubernetes_attributes"
                         THEN MarshalFieldsValueOmit(pk, EditGroupPlatformKubernetesTags)
                         ELSE top.f[k]])

\* the edit variant serialised with the add variant's platform fields
EditBodyAsAdd(opt) ==
    IF opt = Nil \/ opt.PlatformKubernetes = Nil THEN Marshal(opt)
    ELSE Marshal([opt EXCEPT !.PlatformKubernetes =
                     [t |-> "AddGroupPlatformKubernetesOptions", APIURL |-> @.APIURL,
                      Token |-> Nil, CaCert |-> @.CaCert,
                      AuthorizationType |-> StrP("rbac")]])

\* the JSON body NewRequest builds from opt *EditGroupClusterOptions
EditBody(opt) == Marshal(opt)

\* the JSON body NewRequest builds from opt *AddGroupClusterOptions
AddBody(opt) == Marshal(opt)

\* ------------------------------------------------- request builder, dispatcher
\* An OptionFunc either adjusts the request or returns an error.
OkFn == [t |-> "OptionFunc", fails |-> FALSE]
FailFn == [t |-> "OptionFunc", fails |-> TRUE]

NoBody == [t |-> "nobody"]

Request(method, path, body) ==
    [t |-> "Request", method |-> method, path |-> path, body |-> body]

\* s.client.NewRequest(method, u, opt, options): (req, err)
NewRequest(method, u, body, options) ==
    IF \E i \in 1..Len(options) : options[i].fails
    THEN [req |-> Nil, err |-> Err("OptionError")]
    ELSE [req |-> Request(method, u, body), err |-> Nil]

Response(status) == [t |-> "Response", StatusCode |-> status]

\* what the transport and the server do with one request
NetErr == [t |-> "neterr"]
Http(status, body) == [t |-> "http", status |-> status, body |-> body]

IsSuccess(status) == status >= 200 /\ status < 300

\* s.client.Do(req, v): (resp, err), and the new value of the variable v refers to
DoResult(req, kind, cur, a) ==
    CASE a.t = "neterr" ->
           [resp |-> Nil, err |-> Err("TransportError"), v |-> cur]
      [] a.t = "http" /\ ~IsSuccess(a.status) ->
           [resp |-> Response(a.status), err |-> Err("HTTPError"), v |-> cur]
      [] a.t = "http" /\ IsSuccess(a.status) /\ kind = "none" ->
           [resp |-> Response(a.status), err |-> Nil, v |-> cur]
      [] OTHER ->
           LET d == Unmarshal(kind, cur, a.body)
           IN [resp |-> Response(a.status), err |-> d.err, v |-> d.v]

\* ------------------------------------------------------------------ state
VARIABLES
    pc,     \* per caller: "idle", "inflight" (inside Do), "resumed" (Do returned), "done"
    call,   \* per caller: the operation called and its arguments
    built,  \* per caller: the NewRequest invocations of the current call
    sent,   \* per caller: the requests the current call handed to Do
    local,  \* per caller: the variable pc / pcs and how it is passed to Do
    ans,    \* per caller: what the transport answered to the current call
    doRet,  \* per caller: the (resp, err) Do returned
    ret,    \* per caller: what the operation returned
    hist    \* an earlier completed call an observer remembers

vars == <<pc, call, built, sent, local, ans, doRet, ret, hist>>

Triple(result, resp, err) == [result |-> result, resp |-> resp, err |-> err]
Pair(resp, err) == [resp |-> resp, err |-> err]

NoTarget == [kind |-> "none", v |-> Nil]

Init ==
    /\ pc = [p \in Procs |-> "idle"]
    /\ call = [p \in Procs |-> Nil]
    /\ built = [p \in Procs |-> << >>]
    /\ sent = [p \in Procs |-> << >>]
    /\ local = [p \in Procs |-> NoTarget]
    /\ ans = [p \in Procs |-> Nil]
    /\ doRet = [p \in Procs |-> Nil]
    /\ ret = [p \in Procs |-> Nil]
    /\ hist = Nil

\* the value of the two early returns: nil, nil, err or (DeleteCluster) nil, err
FailRet(arity, err) == IF arity = 2 THEN Pair(Nil, err) ELSE Triple(Nil, Nil, err)

\* The part of an operation up to the call of Do.  id is the result of parseID,
\* target the variable handed to Do, arity the number of values returned.
Invoke(p, c, id, method, u, body, target, arity) ==
    /\ call' = [call EXCEPT ![p] = c]
    /\ IF id.err # Nil
       THEN /\ built' = [built EXCEPT ![p] = << >>]
            /\ sent' = [sent EXCEPT ![p] = << >>]
            /\ ret' = [ret EXCEPT ![p] = FailRet(arity, id.err)]
            /\ pc' = [pc EXCEPT ![p] = "done"]
            /\ UNCHANGED local
       ELSE LET r == NewRequest(method, u, body, c.options)
            IN /\ built' = [built EXCEPT ![p] = <<[method |-> method, path |-> u]>>]
               /\ IF r.err # Nil
                  THEN /\ sent' = [sent EXCEPT ![p] = << >>]
                       /\ ret' = [ret EXCEPT ![p] = FailRet(arity, r.err)]
                       /\ pc' = [pc EXCEPT ![p] = "done"]
                       /\ UNCHANGED local
                  ELSE /\ sent' = [sent EXCEPT ![p] = <<r.req>>]
                       /\ local' = [local EXCEPT ![p] = target]
                       /\ pc' = [pc EXCEPT ![p] = "inflight"]
                       /\ UNCHANGED ret
    /\ UNCHANGED <<ans, doRet, hist>>

\* parseID's error ignored
ListClustersUnchecked(p, gid, options) ==
    /\ pc[p] = "idle"
    /\ Invoke(p, [op |-> "ListClusters", gid |-> gid, options |-> options],
              [parseID(gid) EXCEPT !.err = Nil], "GET", ListURL(parseID(gid).group),
              NoBody, [kind |-> "ptrslice", v |-> Nil], 3)

ListClusters(p, gid, options) ==
    /\ pc[p] = "idle"
    /\ LET id == parseID(gid)
       IN Invoke(p, [op |-> "ListClusters", gid |-> gid, options |-> options],
                 id, "GET", ListURL(id.group), NoBody,
                 [kind |-> "ptrslice", v |-> Nil], 3)

\* pc taken from the previous call instead of new(GroupCluster)
GetClusterReusing(p, gid, cluster, options) ==
    /\ pc[p] = "idle"
    /\ LET id == parseID(gid)
       IN Invoke(p, [op |-> "GetCluster", gid |-> gid, cluster |-> cluster,
                     options |-> options],
                 id, "GET", ClusterURL(id.group, cluster), NoBody,
                 [kind |-> "ptrptr",
                  v |-> IF local[p].v # Nil /\ local[p].v.t = "GroupCluster"
                        THEN local[p].v ELSE ZeroCluster],
                 3)

GetCluster(p, gid, cluster, options) ==
    /\ pc[p] = "idle"
    /\ LET id == parseID(gid)
       IN Invoke(p, [op |-> "GetCluster", gid |-> gid, cluster |-> cluster,
                     options |-> options],
                 id, "GET", ClusterURL(id.group, cluster), NoBody,
                 [kind |-> "ptrptr", v |-> ZeroCluster], 3)

\* options checked before the request is built
AddClusterValidating(p, gid, opt, options) ==
    /\ pc[p] = "idle"
    /\ LET id == parseID(gid)
           bad == \/ opt = Nil
                  \/ opt.PlatformKubernetes = Nil
                  \/ opt.PlatformKubernetes.APIURL = Nil
                  \/ opt.PlatformKubernetes.Token = Nil
       IN Invoke(p, [op |-> "AddCluster", gid |-> gid, opt |-> opt, options |-> options],
                 IF bad THEN [id EXCEPT !.err = Err("ValidationError")] ELSE id,
                 "POST", AddURL(id.group), AddBody(opt),
                 [kind |-> "ptr", v |-> ZeroCluster], 3)

AddCluster(p, gid, opt, options) ==
    /\ pc[p] = "idle"
    /\ LET id == parseID(gid)
       IN Invoke(p, [op |-> "AddCluster", gid |-> gid, opt |-> opt, options |-> options],
                 id, "POST", AddURL(id.group), AddBody(opt),
                 [kind |-> "ptr", v |-> ZeroCluster], 3)

EditCluster(p, gid, cluster, opt, options) ==
    /\ pc[p] = "idle"
    /\ LET id == parseID(gid)
       IN Invoke(p, [op |-> "EditCluster", gid |-> gid, cluster |-> cluster, opt |-> opt,
                     options |-> options],
                 id, "PUT", ClusterURL(id.group, cluster), EditBody(opt),
                 [kind |-> "ptr", v |-> ZeroCluster], 3)

DeleteCluster(p, gid, cluster, options) ==
    /\ pc[p] = "idle"
    /\ LET id == parseID(gid)
       IN Invoke(p, [op |-> "DeleteCluster", gid |-> gid, cluster |-> cluster,
                     options |-> options],
                 id, "DELETE", ClusterURL(id.group, cluster), NoBody, NoTarget, 2)

\* The transport answers and Do returns to the operation.
Do(p, a) ==
    /\ pc[p] = "inflight"
    /\ LET d == DoResult(sent[p][1], local[p].kind, local[p].v, a)
       IN /\ local' = [local EXCEPT ![p].v = d.v]
          /\ doRet' = [doRet EXCEPT ![p] = Pair(d.resp, d.err)]
    /\ ans' = [ans EXCEPT ![p] = a]
    /\ pc' = [pc EXCEPT ![p] = "resumed"]
    /\ UNCHANGED <<call, built, sent, ret, hist>>

\* the statements after Do
ListReturnKeeping(pcs, resp, err) == Triple(pcs, resp, err)

ListReturn(pcs, resp, err) ==
    IF err # Nil THEN Triple(Nil, resp, err) ELSE Triple(pcs, resp, err)

GetReturn(v, resp, err) ==
    IF err # Nil THEN Triple(Nil, resp, err) ELSE Triple(v, resp, err)

AddReturn(v, resp, err) ==
    IF err # Nil THEN Triple(Nil, resp, err) ELSE Triple(v, resp, err)

EditReturn(v, resp, err) ==
    IF err # Nil THEN Triple(Nil, resp, err) ELSE Triple(v, resp, err)

\* the dispatcher's error dropped
DeleteReturnSwallowing(resp, err) == Pair(resp, Nil)

DeleteReturn(resp, err) == Pair(resp, err)

ReturnOf(op, v, resp, err) ==
    CASE op = "ListClusters" -> ListReturn(v, resp, err)
      [] op = "GetCluster" -> GetReturn(v, resp, err)
      [] op = "AddCluster" -> AddReturn(v, resp, err)
      [] op = "EditCluster" -> EditReturn(v, resp, err)
      [] op = "DeleteCluster" -> DeleteReturn(resp, err)

\* the result variable kept in one place for all callers
ReturnShared(p) ==
    /\ pc[p] = "resumed"
    /\ ret' = [ret EXCEPT ![p] =
                  ReturnOf(call[p].op, local[1].v, doRet[p].resp, doRet[p].err)]
    /\ pc' = [pc EXCEPT ![p] = "done"]
    /\ UNCHANGED <<call, built, sent, local, ans, doRet, hist>>

\* The operation returns.
Return(p) ==
    /\ pc[p] = "resumed"
    /\ ret' = [ret EXCEPT ![p] =
                  ReturnOf(call[p].op, local[p].v, doRet[p].resp, doRet[p].err)]
    /\ pc' = [pc EXCEPT ![p] = "done"]
    /\ UNCHANGED <<call, built, sent, local, ans, doRet, hist>>

Completed(p) == [call |-> call[p], req |-> sent[p][1], ans |-> ans[p], ret |-> ret[p]]

\* The caller takes the returned values and the call's frame is gone; the memory
\* local referred to is not cleared.  An observer may remember a call that made
\* its round trip when its operation is one of remembered.
Finish(p, remembered) ==
    /\ pc[p] = "done"
    /\ hist' \in IF call[p].op \in remembered /\ ans[p] # Nil
                 THEN {hist, Completed(p)} ELSE {hist}
    /\ pc' = [pc EXCEPT ![p] = "idle"]
    /\ call' = [call EXCEPT ![p] = Nil]
    /\ built' = [built EXCEPT ![p] = << >>]
    /\ sent' = [sent EXCEPT ![p] = << >>]
    /\ ans' = [ans EXCEPT ![p] = Nil]
    /\ doRet' = [doRet EXCEPT ![p] = Nil]
    /\ ret' = [ret EXCEPT ![p] = Nil]
    /\ UNCHANGED local

\* ------------------------------------------------------------------ inputs
\* response bodies of the test fixtures (User, Group and created_at left out)
Cluster18JSON ==
    JObj([id |-> JNum(18), name |-> JStr("cluster-1"), domain |-> JStr("example.com"),
          provider_type |-> JStr("user"), platform_type |-> JStr("kubernetes"),
          environment_scope |-> JStr("*"), cluster_type |-> JStr("group_type"),
          platform_kubernetes |->
              JObj([api_url |-> JStr("https://104.197.68.152"),
                    authorization_type |-> JStr("rbac"), ca_cert |-> JStr("PEM")])])

Cluster24JSON ==
    JObj([id |-> JNum(24), name |-> JStr("cluster-5"),
          provider_type |-> JStr("user"), platform_type |-> JStr("kubernetes"),
          environment_scope |-> JStr("*"), cluster_type |-> JStr("group_type"),
          platform_kubernetes |->
              JObj([api_url |-> JStr("https://35.111.51.20"),
                    authorization_type |-> JStr("rbac"), ca_cert |-> JStr("PEM")])])

Edited24JSON ==
    JObj([id |-> JNum(24), name |-> JStr("new-cluster-name"),
          domain |-> JStr("new-domain.com"),
          provider_type |-> JStr("user"), platform_type |-> JStr("kubernetes"),
          environment_scope |-> JStr("*"), cluster_type |-> JStr("group_type"),
          platform_kubernetes |->
              JObj([api_url |-> JStr("https://new-api-url.com"),
                    authorization_type |-> JStr("rbac"), ca_cert |-> JNull])])

\* an object one of whose fields has the wrong JSON type
MistypedJSON == JObj([id |-> JNum(18), name |-> JStr("cluster-1"), domain |-> JNum(5)])

Bodies ==
    {JEmpty, JMalformed, JNull, Cluster18JSON, Cluster24JSON, Edited24JSON, MistypedJSON,
     JArr(<< >>), JArr(<<Cluster18JSON>>), JArr(<<Cluster18JSON, MistypedJSON>>)}

Answers ==
    {NetErr} \cup {Http(st, b) : st \in {200, 202}, b \in Bodies}
             \cup {Http(st, JEmpty) : st \in {204, 304, 404, 500}}

GroupIDs ==
    {IntID(1234), IntID(7), IntID(-5), OtherID}
        \cup {StringID(s) : s \in StringsUpTo(MaxPathLen)}

ClusterIDs == {1, 18, 24}

OptionLists == {<< >>, <<OkFn>>, <<OkFn, FailFn>>}

AddPlatformOptions(url, token, ca, auth) ==
    [t |-> "AddGroupPlatformKubernetesOptions", APIURL |-> url, Token |-> token,
     CaCert |-> ca, AuthorizationType |-> auth]

AddOptions(name, domain, enabled, managed, scope, pk) ==
    [t |-> "AddGroupClusterOptions", Name |-> name, Domain |-> domain,
     Enabled |-> enabled, Managed |-> managed, EnvironmentScope |-> scope,
     PlatformKubernetes |-> pk]

EmptyAddOptions == AddOptions(Nil, Nil, Nil, Nil, Nil, Nil)

AddOpts ==
    {Nil, EmptyAddOptions,
     AddOptions(StrP("cluster-5"), Nil, Nil, Nil, Nil,
                AddPlatformOptions(StrP("https://35.111.51.20"), StrP("tok"), Nil, Nil)),
     AddOptions(StrP(""), StrP("d"), BoolP(FALSE), BoolP(TRUE), StrP("*"),
                AddPlatformOptions(Nil, Nil, StrP("PEM"), StrP("rbac")))}

EditPlatformOptions(url, token, ca) ==
    [t |-> "EditGroupPlatformKubernetesOptions", APIURL |-> url, Token |-> token,
     CaCert |-> ca]

EditOptions(name, domain, scope, pk) ==
    [t |-> "EditGroupClusterOptions", Name |-> name, Domain |-> domain,
     EnvironmentScope |-> scope, PlatformKubernetes |-> pk]

EmptyEditOptions == EditOptions(Nil, Nil, Nil, Nil)

EditOpts ==
    {Nil, EmptyEditOptions,
     EditOptions(StrP("new-cluster-name"), StrP("new-domain.com"), Nil,
                 EditPlatformOptions(StrP("https://new-api-url.com"), Nil, Nil)),
     EditOptions(Nil, Nil, StrP("*"), EditPlatformOptions(Nil, StrP("tok"), StrP("")))}

\* every value of the edit options over a small set of strings
AllEditPlatformOptions ==
    {EditPlatformOptions(u, tk, ca) :
        u \in {Nil, StrP("u")}, tk \in {Nil, StrP(""), StrP("tok")},
        ca \in {Nil, StrP(""), StrP("PEM")}}

AllEditOpts ==
    {Nil} \cup {EditOptions(n, d, sc, pk) :
                   n \in {Nil, StrP("n")}, d \in {Nil, StrP("d")}, sc \in {Nil, StrP("*")},
                   pk \in {Nil} \cup AllEditPlatformOptions}

\* ---------------------------------------------------------- specifications
\* One caller, every operation, the full set of identifiers and answers.
Next ==
    \/ \E gid \in GroupIDs, o \in OptionLists : ListClusters(1, gid, o)
    \/ \E gid \in GroupIDs, c \in ClusterIDs, o \in OptionLists : GetCluster(1, gid, c, o)
    \/ \E gid \in GroupIDs, opt \in AddOpts, o \in OptionLists : AddCluster(1, gid, opt, o)
    \/ \E gid \in GroupIDs, c \in ClusterIDs, opt \in EditOpts, o \in OptionLists :
          EditCluster(1, gid, c, opt, o)
    \/ \E gid \in GroupIDs, c \in ClusterIDs, o \in OptionLists : DeleteCluster(1, gid, c, o)
    \/ \E a \in Answers : Do(1, a)
    \/ Return(1)
    \/ Finish(1, {})

Spec == Init /\ [][Next]_vars

\* One caller editing, every value of the edit options; the observer remembers
\* EditCluster calls.
NextEdit ==
    \/ \E opt \in AllEditOpts : EditCluster(1, IntID(1234), 24, opt, << >>)
    \/ \E a \in {Http(200, Edited24JSON), NetErr} : Do(1, a)
    \/ Return(1)
    \/ Finish(1, {"EditCluster"})

SpecEdit == Init /\ [][NextEdit]_vars

\* One caller, every operation on a few arguments; the observer remembers
\* GetCluster calls.
FewGroupIDs == {IntID(1234), StringID(<<"a", "/">>)}

FewAnswers ==
    {NetErr, Http(404, JEmpty), Http(200, JNull), Http(200, Cluster18JSON),
     Http(200, Cluster24JSON), Http(200, MistypedJSON)}

NextGet ==
    \/ \E gid \in FewGroupIDs : ListClusters(1, gid, << >>)
    \/ \E gid \in FewGroupIDs, c \in {18, 24} : GetCluster(1, gid, c, << >>)
    \/ \E gid \in FewGroupIDs : AddCluster(1, gid, EmptyAddOptions, << >>)
    \/ \E gid \in FewGroupIDs : EditCluster(1, gid, 24, EmptyEditOptions, << >>)
    \/ \E gid \in FewGroupIDs : DeleteCluster(1, gid, 18, << >>)
    \/ \E a \in FewAnswers : Do(1, a)
    \/ Return(1)
    \/ Finish(1, {"GetCluster"})

SpecGet == Init /\ [][NextGet]_vars

\* Several callers on the same service, their steps interleaved.
ConcAnswers == {Http(404, JEmpty), Http(200, Cluster18JSON), Http(200, Cluster24JSON)}

NextConc ==
    \E p \in Procs :
        \/ ListClusters(p, StringID(<<"a", "/">>), << >>)
        \/ \E gid \in FewGroupIDs : GetCluster(p, gid, 18, << >>)
        \/ AddCluster(p, IntID(1234), EmptyAddOptions, << >>)
        \/ EditCluster(p, IntID(1234), 24, EmptyEditOptions, << >>)
        \/ DeleteCluster(p, StringID(<<"a", "/">>), 18, <<FailFn>>)
        \/ DeleteCluster(p, StringID(<<"a", "/">>), 18, << >>)
        \/ \E a \in ConcAnswers : Do(p, a)
        \/ Return(p)
        \/ Finish(p, {})

SpecConc == Init /\ [][NextConc]_vars

\* ------------------------------------------------- reading a request's path
RECURSIVE SplitPath(_)
SplitPath(s) ==
    IF \A i \in 1..Len(s) : s[i] # "/" THEN <<s>>
    ELSE LET k == CHOOSE i \in 1..Len(s) :
                     s[i] = "/" /\ \A j \in 1..(i - 1) : s[j] # "/"
         IN <<SubSeq(s, 1, k - 1)>> \o SplitPath(SubSeq(s, k + 1, Len(s)))

RECURSIVE Unescape(_)
Unescape(s) ==
    IF s = << >> THEN << >>
    ELSE IF Len(s) >= 3 /\ SubSeq(s, 1, 3) = <<"%", "2", "F">>
         THEN <<"/">> \o Unescape(SubSeq(s, 4, Len(s)))
    ELSE IF Len(s) >= 3 /\ SubSeq(s, 1, 3) = <<"%", "2", "5">>
         THEN <<"%">> \o Unescape(SubSeq(s, 4, Len(s)))
    ELSE <<Head(s)>> \o Unescape(Tail(s))

IsDigit(c) == \E d \in 1..10 : Digits[d] = c

DigitValue(c) == (CHOOSE d \in 1..10 : Digits[d] = c) - 1

RECURSIVE AtoiNat(_)
AtoiNat(s) == IF s = << >> THEN 0
              ELSE 10 * AtoiNat(SubSeq(s, 1, Len(s) - 1)) + DigitValue(s[Len(s)])

IsNumeral(s) ==
    LET d == IF s # << >> /\ s[1] = "-" THEN Tail(s) ELSE s
    IN d # << >> /\ \A i \in 1..Len(d) : IsDigit(d[i])

Atoi(s) == IF s[1] = "-" THEN 0 - AtoiNat(Tail(s)) ELSE AtoiNat(s)

\* the path segment names the group gid
NamesGroup(seg, gid) ==
    IF gid.t = "int" THEN IsNumeral(seg) /\ Atoi(seg) = gid.n
    ELSE Unescape(seg) = gid.s

NamesCluster(seg, cluster) == IsNumeral(seg) /\ Atoi(seg) = cluster

\* the request is the one the wire protocol gives for the call c
RequestMatches(c, r) ==
    LET segs == SplitPath(r.path)
        group == /\ Len(segs) >= 3
                 /\ segs[1] = <<"g", "r", "o", "u", "p", "s">>
                 /\ NamesGroup(segs[2], c.gid)
                 /\ segs[3] = <<"c", "l", "u", "s", "t", "e", "r", "s">>
    IN CASE c.op = "ListClusters" -> r.method = "GET" /\ group /\ Len(segs) = 3
         [] c.op = "GetCluster" ->
              r.method = "GET" /\ group /\ Len(segs) = 4 /\ NamesCluster(segs[4], c.cluster)
         [] c.op = "AddCluster" ->
              r.method = "POST" /\ group /\ Len(segs) = 4 /\ segs[4] = <<"u", "s", "e", "r">>
         [] c.op = "EditCluster" ->
              r.method = "PUT" /\ group /\ Len(segs) = 4 /\ NamesCluster(segs[4], c.cluster)
         [] c.op = "DeleteCluster" ->
              r.method = "DELETE" /\ group /\ Len(segs) = 4
                  /\ NamesCluster(segs[4], c.cluster)

\* a numeric identifier or a non-empty path string
ValidID(gid) == gid.t = "int" \/ (gid.t = "string" /\ gid.s # << >>)

OptionsOK(options) == \A i \in 1..Len(options) : ~options[i].fails

Calling(p) == call[p] # Nil

Op(p) == call[p].op

\* ------------------------------------------------------------------ claims

\* C1 as stated: for every valid group identifier and cluster id, a call of any of
\* the five operations hands exactly one request to the dispatcher, never zero,
\* and that request has the operation's method and path.
C1_ExactlyOneAlways ==
    \A p \in Procs :
        (pc[p] = "done" /\ ValidID(call[p].gid)) =>
            /\ Len(sent[p]) = 1
            /\ RequestMatches(call[p], sent[p][1])

\* C1 amended: a call with a valid group identifier hands at most one request to
\* the dispatcher; it hands exactly one, with the operation's method and path,
\* when the request builder succeeds (also when the dispatcher then reports an
\* error), and none when the request builder fails.
C1_ExactlyOneWhenBuilt ==
    \A p \in Procs :
        (Calling(p) /\ ValidID(call[p].gid)) =>
            /\ Len(sent[p]) <= 1
            /\ OptionsOK(call[p].options) =>
                  /\ Len(sent[p]) = 1
                  /\ RequestMatches(call[p], sent[p][1])
            /\ ~OptionsOK(call[p].options) => sent[p] = << >>

\* a call on a path-string group that needs escaping has returned after the
\* dispatcher reported an error, having dispatched its one request
C1_Witness ==
    \E p \in Procs :
        /\ pc[p] = "done"
        /\ call[p].gid.t = "string"
        /\ \E i \in 1..Len(call[p].gid.s) : call[p].gid.s[i] = "/"
        /\ Len(sent[p]) = 1
        /\ doRet[p] # Nil
        /\ doRet[p].err # Nil

\* C2 as stated: DeleteCluster returns a nil error and the 202 response when the
\* server answers 202 with an empty body, and a non-nil error together with the
\* response for any other status code.
C2_Only202Succeeds ==
    \A p \in Procs :
        (pc[p] = "done" /\ Op(p) = "DeleteCluster" /\ ans[p] # Nil /\ ans[p].t = "http") =>
            /\ ans[p].status = 202 =>
                  ret[p].err = Nil /\ ret[p].resp = Response(202)
            /\ ans[p].status # 202 =>
                  ret[p].err # Nil /\ ret[p].resp = Response(ans[p].status)

\* C2 amended: DeleteCluster returns a nil error and the 202 response when the
\* server answers 202 with an empty body; for every answer it returns exactly the
\* response and the error of the dispatcher, so a status the dispatcher reports as
\* an error gives a non-nil error with the response, and a status the dispatcher
\* accepts (200) gives a nil error as 202 does.
C2_DeletePassesDispatcherVerdict ==
    \A p \in Procs :
        (pc[p] = "done" /\ Op(p) = "DeleteCluster" /\ ans[p] # Nil) =>
            /\ ret[p] = doRet[p]
            /\ (ans[p].t = "http" /\ ans[p].status = 202) =>
                  ret[p].err = Nil /\ ret[p].resp = Response(202)
            /\ (ans[p].t = "http" /\ doRet[p].err # Nil) =>
                  ret[p].err # Nil /\ ret[p].resp = Response(ans[p].status)

\* DeleteCluster has returned the response and the nil error of a 202 answer
C2_Witness ==
    \E p \in Procs :
        /\ pc[p] = "done"
        /\ Op(p) = "DeleteCluster"
        /\ ans[p] = Http(202, JEmpty)
        /\ ret[p] = Pair(Response(202), Nil)

\* C3: in each of the five operations, when identifier resolution fails no
\* request is built and none dispatched, and the call returns the resolver's
\* error with no result and no response.
C3_InvalidIdentifierIsLocal ==
    \A p \in Procs :
        (Calling(p) /\ parseID(call[p].gid).err # Nil) =>
            /\ pc[p] = "done"
            /\ built[p] = << >>
            /\ sent[p] = << >>
            /\ ans[p] = Nil
            /\ ret[p].err = parseID(call[p].gid).err
            /\ ret[p].resp = Nil
            /\ Op(p) # "DeleteCluster" => ret[p].result = Nil

\* ListClusters was called with the empty path string and has returned
C3_Witness ==
    \E p \in Procs :
        /\ pc[p] = "done"
        /\ Op(p) = "ListClusters"
        /\ call[p].gid = StringID(<< >>)
        /\ ret[p] = Triple(Nil, Nil, Err("InvalidIdentifier"))

\* C4: when the dispatcher returns an error to ListClusters, GetCluster,
\* AddCluster or EditCluster, the call returns a nil result together with the
\* dispatcher's response and error unchanged; the response is present whenever
\* the round trip produced one.
C4_DispatcherErrorVerbatim ==
    \A p \in Procs :
        (pc[p] = "done" /\ Op(p) # "DeleteCluster" /\ doRet[p] # Nil
            /\ doRet[p].err # Nil) =>
            /\ ret[p].result = Nil
            /\ ret[p].resp = doRet[p].resp
            /\ ret[p].err = doRet[p].err
            /\ ans[p].t = "http" => ret[p].resp = Response(ans[p].status)

\* ListClusters has returned a decoding error although the decoder had already
\* filled the slice
C4_Witness ==
    \E p \in Procs :
        /\ pc[p] = "done"
        /\ Op(p) = "ListClusters"
        /\ doRet[p] # Nil
        /\ doRet[p].err = DecodeError
        /\ local[p].v # Nil
        /\ Len(local[p].v.e) = 2
        /\ ret[p].result = Nil
        /\ ret[p].resp = Response(200)

\* the answer is a success whose body is a well-typed cluster object
AnsweredCluster(a) ==
    a.t = "http" /\ IsSuccess(a.status) /\ a.body.t = "obj" /\ ~ClusterErr(a.body)

\* C7: AddCluster does not validate its options: whether it dispatches the POST
\* is decided by the identifier and the request builder alone, whatever the
\* options hold (nothing set included), and it returns the cluster the server
\* answered with (ID 24 for the fixture) and a nil error.
C7_AddPassesOptionsThrough ==
    \A p \in Procs :
        (pc[p] = "done" /\ Op(p) = "AddCluster") =>
            /\ (sent[p] # << >>) <=> (ValidID(call[p].gid) /\ OptionsOK(call[p].options))
            /\ sent[p] # << >> =>
                  /\ Len(sent[p]) = 1
                  /\ sent[p][1].method = "POST"
                  /\ AnsweredCluster(ans[p]) =>
                        /\ ret[p].err = Nil
                        /\ ret[p].result # Nil
                        /\ ret[p].result.ID = ans[p].body.f["id"].n
                        /\ ret[p].result.Name = ans[p].body.f["name"].s
                  /\ ans[p] = Http(200, Cluster24JSON) => ret[p].result.ID = 24

\* AddCluster called with no field set has returned cluster 24
C7_Witness ==
    \E p \in Procs :
        /\ pc[p] = "done"
        /\ Op(p) = "AddCluster"
        /\ call[p].opt = EmptyAddOptions
        /\ sent[p] # << >>
        /\ sent[p][1].body = JObj(<< >>)
        /\ ret[p].err = Nil
        /\ ret[p].result # Nil
        /\ ret[p].result.ID = 24

\* C10: whenever GetCluster, AddCluster or EditCluster returns a nil error, the
\* cluster it returns is present, whatever successful body the server sent.
C10_NilErrorGivesCluster ==
    \A p \in Procs :
        (pc[p] = "done" /\ Op(p) \in {"GetCluster", "AddCluster", "EditCluster"}
            /\ ret[p].err = Nil) =>
            ret[p].result # Nil

\* ------------------------------------------------ the body EditCluster sends
EditSent(p) == Calling(p) /\ Op(p) = "EditCluster" /\ sent[p] # << >>

PlatformKey == "platform_kubernetes_attributes"

\* every pointer field of the struct s is written to the object b exactly when
\* it is not nil, and then with the string it points to
FieldsFollowPointers(s, b, tags) ==
    \A i \in 1..Len(tags) :
        LET ptr == s[tags[i][1]]
            key == tags[i][2]
        IN /\ Has(b, key) <=> ptr # Nil
           /\ (ptr # Nil /\ ptr.t = "string") => b.f[key] = JStr(ptr.s)

\* C5 as stated: an unset field is not serialised, while a CA certificate given
\* as an explicit null (a nil CaCert, the only null a caller can give) is
\* serialised as null.
C5_ExplicitNullSerialised ==
    \A p \in Procs :
        (EditSent(p) /\ call[p].opt # Nil) =>
            LET opt == call[p].opt
                b == sent[p][1].body
            IN /\ \A i \in 1..Len(EditGroupClusterTags) :
                     opt[EditGroupClusterTags[i][1]] = Nil =>
                         ~Has(b, EditGroupClusterTags[i][2])
               /\ (opt.PlatformKubernetes # Nil /\ opt.PlatformKubernetes.CaCert = Nil) =>
                     /\ Has(b.f[PlatformKey], "ca_cert")
                     /\ b.f[PlatformKey].f["ca_cert"] = JNull

\* C5 amended: a field left unset (nil) is not serialised at all and a field that
\* is set is serialised with its value, the empty string included; a nil CA
\* certificate is left out like any unset field and no field is ever written as
\* null, so the body cannot ask the server to clear it by null; two different
\* option values (CA certificate unset against set to "") never give the same body.
C5_UnsetOmittedSetWritten ==
    \A p \in Procs :
        EditSent(p) =>
            LET opt == call[p].opt
                b == sent[p][1].body
            IN /\ opt = Nil <=> b = JNull
               /\ opt # Nil =>
                     /\ b.t = "obj"
                     /\ FieldsFollowPointers(opt, b, EditGroupClusterTags)
                     /\ \A k \in DOMAIN b.f : b.f[k] # JNull
                     /\ opt.PlatformKubernetes # Nil =>
                           /\ b.f[PlatformKey].t = "obj"
                           /\ FieldsFollowPointers(opt.PlatformKubernetes, b.f[PlatformKey],
                                                   EditGroupPlatformKubernetesTags)
                           /\ \A k \in DOMAIN b.f[PlatformKey].f :
                                 b.f[PlatformKey].f[k] # JNull
               /\ (hist # Nil /\ hist.call.opt # opt) => hist.req.body # b

\* an earlier EditCluster left the CA certificate unset, this one sets it to the
\* empty string and changes nothing else; the bodies differ
C5_Witness ==
    \E p \in Procs :
        /\ EditSent(p)
        /\ hist # Nil
        /\ hist.call.opt # Nil
        /\ hist.call.opt.PlatformKubernetes # Nil
        /\ hist.call.opt.PlatformKubernetes.CaCert = Nil
        /\ call[p].opt =
              [hist.call.opt EXCEPT !.PlatformKubernetes.CaCert = StrP("")]
        /\ ~Has(hist.req.body.f[PlatformKey], "ca_cert")
        /\ sent[p][1].body.f[PlatformKey].f["ca_cert"] = JStr("")

\* C6 as stated: whatever the edit options hold, the body EditCluster sends
\* carries no access token.
C6_NoTokenInEditBody ==
    \A p \in Procs :
        (EditSent(p) /\ sent[p][1].body.t = "obj"
            /\ Has(sent[p][1].body, PlatformKey)) =>
            ~Has(sent[p][1].body.f[PlatformKey], "token")

\* C6 amended: the body EditCluster sends carries an access token exactly when
\* the options set Token, and then the token given; the platform field the edit
\* variant cannot carry is the authorization type.
C6_TokenSentWhenSet ==
    \A p \in Procs :
        (EditSent(p) /\ call[p].opt # Nil /\ call[p].opt.PlatformKubernetes # Nil) =>
            LET pk == call[p].opt.PlatformKubernetes
                b == sent[p][1].body.f[PlatformKey]
            IN /\ Has(b, "token") <=> pk.Token # Nil
               /\ pk.Token # Nil => b.f["token"] = JStr(pk.Token.s)
               /\ ~Has(b, "authorization_type")

\* EditCluster has dispatched a body with the token the caller gave
C6_Witness ==
    \E p \in Procs :
        /\ EditSent(p)
        /\ call[p].opt # Nil
        /\ call[p].opt.PlatformKubernetes # Nil
        /\ call[p].opt.PlatformKubernetes.Token = StrP("tok")
        /\ sent[p][1].body.f[PlatformKey].f["token"] = JStr("tok")

\* ------------------------------------------------------- a call on its own
TargetOf(op) ==
    CASE op = "ListClusters" -> [kind |-> "ptrslice", v |-> Nil]
      [] op = "GetCluster" -> [kind |-> "ptrptr", v |-> ZeroCluster]
      [] op \in {"AddCluster", "EditCluster"} -> [kind |-> "ptr", v |-> ZeroCluster]
      [] op = "DeleteCluster" -> NoTarget

\* what the call c returns when it runs alone and the transport answers a
Alone(c, a) ==
    LET fail(e) == IF c.op = "DeleteCluster" THEN Pair(Nil, e) ELSE Triple(Nil, Nil, e)
    IN IF ~ValidID(c.gid) THEN fail(Err("InvalidIdentifier"))
       ELSE IF ~OptionsOK(c.options) THEN fail(Err("OptionError"))
       ELSE LET d == DoResult(Nil, TargetOf(c.op).kind, TargetOf(c.op).v, a)
            IN IF c.op = "DeleteCluster" THEN Pair(d.resp, d.err)
               ELSE IF d.err # Nil THEN Triple(Nil, d.resp, d.err)
               ELSE Triple(d.v, d.resp, d.err)

\* C8: with several calls running concurrently on the same service, in every
\* interleaving each call dispatches its own request and returns the result,
\* response and error of its own round trip, what it would return alone.
C8_CallsAreIndependent ==
    \A p \in Procs :
        /\ (Calling(p) /\ sent[p] # << >>) =>
              /\ Len(sent[p]) = 1
              /\ RequestMatches(call[p], sent[p][1])
        /\ pc[p] = "done" => ret[p] = Alone(call[p], ans[p])
        /\ (pc[p] = "done" /\ ans[p] # Nil /\ ans[p].t = "http") =>
              ret[p].resp = Response(ans[p].status)

\* two callers are in GetCluster at once and each has returned the cluster of
\* its own answer
C8_Witness ==
    \E p, q \in Procs :
        /\ p # q
        /\ pc[p] = "done"
        /\ pc[q] = "done"
        /\ Op(p) = "GetCluster"
        /\ Op(q) = "GetCluster"
        /\ ans[p] = Http(200, Cluster18JSON)
        /\ ans[q] = Http(200, Cluster24JSON)
        /\ ret[p].result.ID = 18
        /\ ret[q].result.ID = 24

\* C9: two GetCluster calls in sequence with the same group and cluster id that
\* get the same answer return equal values, whatever ran before or between them;
\* for the fixture the cluster has ID 18 and domain example.com.
C9_GetClusterRepeatable ==
    \A p \in Procs :
        (pc[p] = "done" /\ Op(p) = "GetCluster" /\ ans[p] # Nil) =>
            /\ (hist # Nil /\ hist.call.gid = call[p].gid
                   /\ hist.call.cluster = call[p].cluster /\ hist.ans = ans[p]) =>
                  hist.ret = ret[p]
            /\ ans[p] = Http(200, Cluster18JSON) =>
                  /\ ret[p].err = Nil
                  /\ ret[p].result.ID = 18
                  /\ ret[p].result.Domain = "example.com"

\* a GetCluster has returned cluster 18 for the fixture's answer, as an earlier
\* GetCluster of the same group and cluster did
C9_Witness ==
    \E p \in Procs :
        /\ pc[p] = "done"
        /\ Op(p) = "GetCluster"
        /\ hist # Nil
        /\ hist.call.gid = call[p].gid
        /\ hist.call.cluster = call[p].cluster
        /\ hist.ans = Http(200, Cluster18JSON)
        /\ ans[p] = Http(200, Cluster18JSON)
        /\ ret[p].result.ID = 18

====
